---- MODULE Spec2Model ----
(***************************************************************************)
(* A model of the askSpoke SDK (src/lib/askspoke.js): the secret-store     *)
(* client `Spoke` (token cache, two instance-level parameter slots, the    *)
(* got client built per call) and the literal-token client `AskSpoke`.     *)
(* One Spoke instance and one AskSpoke instance are modelled.  An async    *)
(* method is cut at its awaits: the synchronous prefix of a call is one    *)
(* action, every resumption is one action.                                 *)
(***************************************************************************)
EXTENDS Naturals, Sequences, FiniteSets

VARIABLES secretPrefix, cache, searchParams, bodyParams, calls, cacheWrites,
          askSpokeToken, askCalls, secretReads, awaitsEach

vars == <<secretPrefix, cache, searchParams, bodyParams, calls, cacheWrites,
          askSpokeToken, askCalls, secretReads, awaitsEach>>

spokeVars == <<secretPrefix, cache, searchParams, bodyParams, calls, cacheWrites>>

askVars == <<askSpokeToken, askCalls>>

\* the caller's discipline, fixed for a run: TRUE when the caller awaits every
\* call on the Spoke instance before it makes the next one
callerVars == <<awaitsEach>>

(* ------------------------------ bounds -------------------------------- *)

\* calls started on an instance over a run
MaxCalls == 2

(* --------------------------- input domains ---------------------------- *)

\* the JavaScript value undefined
Undefined == "<undefined>"

\* parameter objects a caller passes (query or body), by identity
Params == {"p1", "p2"}

\* what a list method gets as params: a query object, or undefined when the
\* caller passes none (`spoke.listTeams()`)
QueryParams == Params \cup {Undefined}

RequestIds == {"60ad2021"}

TeamIds == {"team7"}

TagIds == {"tag9"}

\* secret paths given to new Spoke(secretPrefix)
SecretPrefixes == {"general/IT/spoke/123", "path/to/secret"}

\* tokens given to new AskSpoke(askSpokeToken)
LiteralTokens == {"tok-1", "tok-9"}

\* data.SecretString of a successful getSecretValue: a token, the empty
\* string, or absent (a binary secret has no SecretString)
SecretStrings == {"tok-2", "tok-3", "", Undefined}

\* rejections of getSecretValue().promise()
StoreErrors == {"AccessDeniedException"}

\* rejections of a got request: a transport error, a non-2xx response
HttpErrors == {"RequestError", "HTTPError 404"}

\* fulfilled got responses
Responses == {"response 200"}

\* the token the test '[spoke] token cached' assigns to spoke._cache.token
PrimedTokens == {"123"}

\* nothing has come back from a collaborator yet
NotYet == "<not yet>"

TruthyWhenDefined(v) == v # Undefined

\* JavaScript truthiness of the values above, as used by `if (x)`
Truthy(v) == v # Undefined /\ v # ""

(* ------------------------------- Spoke -------------------------------- *)

prefixUrl == "https://api.askspoke.com/api/v1/"

\* the state of one invocation of an async method of Spoke: its arguments and
\* locals, where it is suspended, the secret reads and HTTP requests it has
\* issued, what its promise settled with; `received` and `thrown` log what the
\* secret store fulfilled with and what a collaborator rejected with
NewCall(op, id, tagId, params, endpoint, verb) ==
  [ op       |-> op,
    id       |-> id,
    tagId    |-> tagId,
    params   |-> params,
    endpoint |-> endpoint,
    verb     |-> verb,
    pc       |-> "start",
    apiKey   |-> Undefined,
    client   |-> <<>>,
    reads    |-> <<>>,
    reqs     |-> <<>>,
    result   |-> Undefined,
    received |-> NotYet,
    thrown   |-> NotYet ]

Settled(c) == c.pc \in {"resolved", "rejected"}

Idle == \A i \in 1..Len(calls) : Settled(calls[i])

\* a caller may start a call: the run has calls left, and a caller that awaits
\* every call has none pending
CanStart == Len(calls) < MaxCalls /\ (awaitsEach => Idle)

\* `if (this._cache.token) return this._cache.token;`
CacheHit == Truthy(cache)

\* token() without its cache test: the secret store is read on every call
TokenEntryAlwaysReads(c) ==
  [c EXCEPT !.pc = "awaitRead",
            !.reads = Append(@, [SecretId |-> secretPrefix])]

\* token(), from its entry to its first await or its return: with a cached
\* token the promise is fulfilled with it, otherwise getSecretValue is
\* issued with SecretId = `${this.secretPrefix}`
TokenEntry(c) ==
  IF CacheHit
    THEN [c EXCEPT !.pc = "awaitToken", !.apiKey = cache]
    ELSE [c EXCEPT !.pc = "awaitRead",
                   !.reads = Append(@, [SecretId |-> secretPrefix])]

InvokeSetsOwnSlot(c, setsSlots, sp, bp) ==
  /\ searchParams' = IF setsSlots /\ sp # Undefined THEN sp ELSE searchParams
  /\ bodyParams' = IF setsSlots /\ bp # Undefined THEN bp ELSE bodyParams
  /\ calls' = Append(calls, TokenEntry(c))
  /\ secretReads' = secretReads + Len(TokenEntry(c).reads)
  /\ UNCHANGED <<secretPrefix, cache, cacheWrites>>
  /\ UNCHANGED <<askVars, callerVars>>

InvokeResetsSlots(c, setsSlots, sp, bp) ==
  /\ searchParams' = IF setsSlots THEN sp ELSE Undefined
  /\ bodyParams' = IF setsSlots THEN bp ELSE Undefined
  /\ calls' = Append(calls, TokenEntry(c))
  /\ secretReads' = secretReads + Len(TokenEntry(c).reads)
  /\ UNCHANGED <<secretPrefix, cache, cacheWrites>>
  /\ UNCHANGED <<askVars, callerVars>>

\* the synchronous prefix of an endpoint method: the slot assignments it
\* makes (a slot it does not assign keeps its value), then gotClient() up
\* to `await this.token()`
Invoke(c, setsSlots, sp, bp) ==
  /\ searchParams' = IF setsSlots THEN sp ELSE searchParams
  /\ bodyParams' = IF setsSlots THEN bp ELSE bodyParams
  /\ calls' = Append(calls, TokenEntry(c))
  /\ secretReads' = secretReads + Len(TokenEntry(c).reads)
  /\ UNCHANGED <<secretPrefix, cache, cacheWrites>>
  /\ UNCHANGED <<askVars, callerVars>>

\* a direct call of spoke.token()
token ==
  /\ CanStart
  /\ calls' = Append(calls, TokenEntry(NewCall("token", Undefined, Undefined, Undefined,
                                                Undefined, Undefined)))
  /\ secretReads' = secretReads + Len(calls'[Len(calls')].reads)
  /\ UNCHANGED <<secretPrefix, cache, cacheWrites, searchParams, bodyParams>>
  /\ UNCHANGED <<askVars, callerVars>>

listRequestTypes ==
  \E params \in QueryParams :
    /\ CanStart
    /\ Invoke(NewCall("listRequestTypes", Undefined, Undefined, params,
                      "request_types", "GET"),
              TRUE, params, Undefined)

listTeams ==
  \E params \in QueryParams :
    /\ CanStart
    /\ Invoke(NewCall("listTeams", Undefined, Undefined, params,
                      "teams", "GET"),
              TRUE, params, Undefined)

listUsers ==
  \E params \in QueryParams :
    /\ CanStart
    /\ Invoke(NewCall("listUsers", Undefined, Undefined, params,
                      "users", "GET"),
              TRUE, params, Undefined)

getRequest ==
  \E requestId \in RequestIds :
    /\ CanStart
    /\ Invoke(NewCall("getRequest", requestId, Undefined, Undefined,
                      "requests/" \o requestId, "GET"),
              FALSE, Undefined, Undefined)

deleteRequest ==
  \E requestId \in RequestIds :
    /\ CanStart
    /\ Invoke(NewCall("deleteRequest", requestId, Undefined, Undefined,
                      "requests/" \o requestId, "DELETE"),
              FALSE, Undefined, Undefined)

listRequests ==
  \E params \in QueryParams :
    /\ CanStart
    /\ Invoke(NewCall("listRequests", Undefined, Undefined, params,
                      "requests", "GET"),
              TRUE, params, Undefined)

postRequest ==
  \E request \in Params :
    /\ CanStart
    /\ Invoke(NewCall("postRequest", Undefined, Undefined, request,
                      "requests", "POST"),
              TRUE, Undefined, request)

postMessage ==
  \E requestId \in RequestIds, params \in Params :
    /\ CanStart
    /\ Invoke(NewCall("postMessage", requestId, Undefined, params,
                      "requests/" \o requestId \o "/messages", "POST"),
              TRUE, Undefined, params)

updateRequest ==
  \E requestId \in RequestIds, params \in Params :
    /\ CanStart
    /\ Invoke(NewCall("updateRequest", requestId, Undefined, params,
                      "requests/" \o requestId, "PATCH"),
              TRUE, Undefined, params)

updateTeam ==
  \E teamId \in TeamIds, params \in Params :
    /\ CanStart
    /\ Invoke(NewCall("updateTeam", teamId, Undefined, params,
                      "teams/" \o teamId, "PATCH"),
              TRUE, Undefined, params)

listTags ==
  \E params \in QueryParams :
    /\ CanStart
    /\ Invoke(NewCall("listTags", Undefined, Undefined, params,
                      "tags", "GET"),
              TRUE, params, Undefined)

addTags ==
  \E requestId \in RequestIds, params \in Params :
    /\ CanStart
    /\ Invoke(NewCall("addTags", requestId, Undefined, params,
                      "requests/" \o requestId \o "/tags", "PATCH"),
              TRUE, Undefined, params)

removeTags ==
  \E requestId \in RequestIds, tagId \in TagIds :
    /\ CanStart
    /\ Invoke(NewCall("removeTags", requestId, tagId, Undefined,
                      "requests/" \o requestId \o "/tags/" \o tagId, "DELETE"),
              TRUE, Undefined, Undefined)

\* `spoke._cache.token = '123'` on a fresh instance, as the test of the
\* cached token does before it calls token()
PrimeCache ==
  \E t \in PrimedTokens :
    /\ calls = <<>>
    /\ cache = Undefined
    /\ cache' = t
    /\ UNCHANGED <<secretPrefix, searchParams, bodyParams, calls, cacheWrites, secretReads>>
    /\ UNCHANGED <<askVars, callerVars>>

\* token() without the assignment to the cache
CachedValueNotStored(secretString) == cache

\* `this._cache.token = token` with token = data.SecretString
CachedValue(secretString) == secretString

\* getSecretValue fulfils: token() fulfils with data.SecretString
TokenFulfilledNoValue(c, secretString) ==
  [c EXCEPT !.pc = "awaitToken"]

TokenFulfilled(c, secretString) ==
  [c EXCEPT !.pc = "awaitToken", !.apiKey = secretString]

SecretResolves ==
  \E i \in 1..Len(calls), secretString \in SecretStrings :
    /\ calls[i].pc = "awaitRead"
    /\ cache' = CachedValue(secretString)
    /\ cacheWrites' = Append(cacheWrites, cache')
    /\ calls' = [calls EXCEPT ![i] =
                   [TokenFulfilled(calls[i], secretString) EXCEPT !.received = secretString]]
    /\ UNCHANGED <<secretPrefix, searchParams, bodyParams, secretReads>>
    /\ UNCHANGED <<askVars, callerVars>>

TokenRejectedRereads(c, error) ==
  [c EXCEPT !.reads = Append(@, [SecretId |-> secretPrefix])]

\* getSecretValue rejects: token() rejects with the error, and so do
\* gotClient() and the endpoint method awaiting it
TokenRejected(c, error) ==
  [c EXCEPT !.pc = "rejected", !.result = error]

SecretRejects ==
  \E i \in 1..Len(calls), error \in StoreErrors :
    /\ calls[i].pc = "awaitRead"
    /\ calls' = [calls EXCEPT ![i] =
                   [TokenRejected(calls[i], error) EXCEPT !.thrown = error]]
    /\ UNCHANGED <<secretPrefix, cache, cacheWrites, searchParams, bodyParams, secretReads>>
    /\ UNCHANGED <<askVars, callerVars>>

\* a direct token() call hands its value to its caller
TokenReturns ==
  \E i \in 1..Len(calls) :
    /\ calls[i].pc = "awaitToken"
    /\ calls[i].op = "token"
    /\ calls' = [calls EXCEPT ![i] =
                   [@ EXCEPT !.pc = "resolved", !.result = calls[i].apiKey]]
    /\ UNCHANGED <<secretPrefix, cache, cacheWrites, searchParams, bodyParams, secretReads>>
    /\ UNCHANGED <<askVars, callerVars>>

\* gotClient() built from the call's own arguments instead of the slots
ClientOptionsOfCall(c) ==
  [ prefixUrl    |-> prefixUrl,
    ApiKey       |-> c.apiKey,
    searchParams |-> IF c.verb = "GET" THEN c.params ELSE Undefined,
    json         |-> IF c.verb \in {"POST", "PATCH"} THEN c.params ELSE Undefined ]

\* the options gotClient() gives got.extend once `await this.token()` resumes:
\* the two slots are read here, not when the endpoint method was entered
ClientOptions(c) ==
  [ prefixUrl    |-> prefixUrl,
    ApiKey       |-> c.apiKey,
    searchParams |-> searchParams,
    json         |-> bodyParams ]

gotClient ==
  \E i \in 1..Len(calls) :
    /\ calls[i].pc = "awaitToken"
    /\ calls[i].op # "token"
    /\ calls' = [calls EXCEPT ![i] =
                   [@ EXCEPT !.pc = "awaitClient", !.client = <<ClientOptions(calls[i])>>]]
    /\ UNCHANGED <<secretPrefix, cache, cacheWrites, searchParams, bodyParams, secretReads>>
    /\ UNCHANGED <<askVars, callerVars>>

\* the request client.get / post / patch / delete (endpoint) hands to got
Request(c) ==
  [ verb         |-> c.verb,
    url          |-> c.client[1].prefixUrl \o c.endpoint,
    ApiKey       |-> c.client[1].ApiKey,
    searchParams |-> c.client[1].searchParams,
    json         |-> c.client[1].json ]

\* the endpoint method resumes with the client and calls its verb
Dispatch ==
  \E i \in 1..Len(calls) :
    /\ calls[i].pc = "awaitClient"
    /\ calls' = [calls EXCEPT ![i] =
                   [@ EXCEPT !.pc = "awaitHttp", !.reqs = Append(@, Request(calls[i]))]]
    /\ UNCHANGED <<secretPrefix, cache, cacheWrites, searchParams, bodyParams, secretReads>>
    /\ UNCHANGED <<askVars, callerVars>>

\* `return Promise.resolve(response);`
HttpFulfilled(c, response) ==
  [c EXCEPT !.pc = "resolved", !.result = response]

HttpResolves ==
  \E i \in 1..Len(calls), response \in Responses :
    /\ calls[i].pc = "awaitHttp"
    /\ calls' = [calls EXCEPT ![i] = HttpFulfilled(calls[i], response)]
    /\ UNCHANGED <<secretPrefix, cache, cacheWrites, searchParams, bodyParams, secretReads>>
    /\ UNCHANGED <<askVars, callerVars>>

\* a catch block that sends the request again instead of rejecting
HttpRetried(c, error) ==
  [c EXCEPT !.pc = "awaitHttp", !.reqs = Append(@, c.reqs[1])]

\* `catch (error) { return Promise.reject(error); }` (listRequests does not
\* await the request: its promise adopts the request's rejection)
HttpRejected(c, error) ==
  [c EXCEPT !.pc = "rejected", !.result = error]

HttpRejects ==
  \E i \in 1..Len(calls), error \in HttpErrors :
    /\ calls[i].pc = "awaitHttp"
    /\ calls' = [calls EXCEPT ![i] =
                   [HttpRejected(calls[i], error) EXCEPT !.thrown = error]]
    /\ UNCHANGED <<secretPrefix, cache, cacheWrites, searchParams, bodyParams, secretReads>>
    /\ UNCHANGED <<askVars, callerVars>>

(* ------------------------------ AskSpoke ------------------------------ *)

apiUrl == "https://api.askSpoke.com/api/v1"

\* the key taken from the Spoke token cache instead of the constructor's token
AskApiKeyFromCache == cache

\* `const apiKey = this.askSpokeToken;`
AskApiKey == askSpokeToken

\* what an AskSpoke method hands to got: the verb, the first positional
\* argument when it is not the options object, and the options
AskRequest(verb, arg, url, baseUrl, query, body) ==
  [ verb    |-> verb,
    arg     |-> arg,
    url     |-> url,
    baseUrl |-> baseUrl,
    ApiKey  |-> AskApiKey,
    query   |-> query,
    body    |-> body ]

\* the run has calls left
AskCanStart == Len(askCalls) < MaxCalls

\* an AskSpoke method up to `await got...`: the request is issued at once
AskInvoke(op, id, params, request) ==
  /\ askCalls' = Append(askCalls,
       [ op |-> op, id |-> id, params |-> params, pc |-> "awaitHttp", reqs |-> <<request>>,
         result |-> Undefined, thrown |-> NotYet ])
  /\ UNCHANGED <<askSpokeToken, secretReads>>
  /\ UNCHANGED <<spokeVars, callerVars>>

AskListRequestTypes ==
  \E params \in Params :
    /\ AskCanStart
    /\ AskInvoke("listRequestTypes", Undefined, params,
         AskRequest("GET", Undefined, apiUrl \o "/request_types/", Undefined, params, Undefined))

AskListTeams ==
  \E params \in Params :
    /\ AskCanStart
    /\ AskInvoke("listTeams", Undefined, params,
         AskRequest("GET", Undefined, apiUrl \o "/teams/", Undefined, params, Undefined))

AskListUsers ==
  \E params \in Params :
    /\ AskCanStart
    /\ AskInvoke("listUsers", Undefined, params,
         AskRequest("GET", Undefined, apiUrl \o "/users/", Undefined, params, Undefined))

AskGetRequest ==
  \E requestId \in RequestIds :
    /\ AskCanStart
    /\ AskInvoke("getRequest", requestId, Undefined,
         AskRequest("GET", requestId, Undefined, apiUrl \o "/requests/", Undefined, Undefined))

AskListRequests ==
  \E params \in Params :
    /\ AskCanStart
    /\ AskInvoke("listRequests", Undefined, params,
         AskRequest("GET", Undefined, apiUrl \o "/requests/", Undefined, params, Undefined))

AskPostRequest ==
  \E request \in Params :
    /\ AskCanStart
    /\ AskInvoke("postRequest", Undefined, request,
         AskRequest("POST", Undefined, apiUrl \o "/requests/", Undefined, Undefined, request))

\* `got.patch(params, options)` with options.url = `${this.apiUrl}/${teamId}`
AskUpdateTeam ==
  \E teamId \in TeamIds, params \in Params :
    /\ AskCanStart
    /\ AskInvoke("updateTeam", teamId, params,
         AskRequest("PATCH", params, apiUrl \o "/" \o teamId, Undefined, Undefined, params))

AskHttpResolves ==
  \E i \in 1..Len(askCalls), response \in Responses :
    /\ askCalls[i].pc = "awaitHttp"
    /\ askCalls' = [askCalls EXCEPT ![i] = [@ EXCEPT !.pc = "resolved", !.result = response]]
    /\ UNCHANGED <<askSpokeToken, secretReads>>
    /\ UNCHANGED <<spokeVars, callerVars>>

AskHttpRejects ==
  \E i \in 1..Len(askCalls), error \in HttpErrors :
    /\ askCalls[i].pc = "awaitHttp"
    /\ askCalls' = [askCalls EXCEPT ![i] =
                      [@ EXCEPT !.pc = "rejected", !.result = error, !.thrown = error]]
    /\ UNCHANGED <<askSpokeToken, secretReads>>
    /\ UNCHANGED <<spokeVars, callerVars>>

(* --------------------------- specifications --------------------------- *)

\* the state after `new Spoke(secretPrefix)`; no AskSpoke client exists
SpokeInit ==
  /\ secretPrefix \in SecretPrefixes
  /\ cache = Undefined
  /\ searchParams = Undefined
  /\ bodyParams = Undefined
  /\ calls = <<>>
  /\ cacheWrites = <<>>
  /\ secretReads = 0
  /\ awaitsEach \in BOOLEAN
  /\ askSpokeToken = Undefined
  /\ askCalls = <<>>

\* the state after `new AskSpoke(askSpokeToken)`; no Spoke client exists
AskInit ==
  /\ askSpokeToken \in LiteralTokens
  /\ askCalls = <<>>
  /\ secretReads = 0
  /\ awaitsEach = FALSE
  /\ secretPrefix = Undefined
  /\ cache = Undefined
  /\ searchParams = Undefined
  /\ bodyParams = Undefined
  /\ calls = <<>>
  /\ cacheWrites = <<>>

Init == SpokeInit \/ AskInit

StartCall ==
  \/ token
  \/ listRequestTypes
  \/ listTeams
  \/ listUsers
  \/ getRequest
  \/ deleteRequest
  \/ listRequests
  \/ postRequest
  \/ postMessage
  \/ updateRequest
  \/ updateTeam
  \/ listTags
  \/ addTags
  \/ removeTags

Resume ==
  \/ SecretResolves
  \/ SecretRejects
  \/ TokenReturns
  \/ gotClient
  \/ Dispatch
  \/ HttpResolves
  \/ HttpRejects

Next == PrimeCache \/ StartCall \/ Resume

\* calls on the Spoke instance may overlap
OverlapInit == SpokeInit /\ awaitsEach = FALSE

Spec == OverlapInit /\ [][Next]_vars

\* a strictly sequential call sequence on the Spoke instance
SeqInit == SpokeInit /\ awaitsEach = TRUE

SeqSpec == SeqInit /\ [][Next]_vars

AskNext ==
  \/ AskListRequestTypes
  \/ AskListTeams
  \/ AskListUsers
  \/ AskGetRequest
  \/ AskListRequests
  \/ AskPostRequest
  \/ AskUpdateTeam
  \/ AskHttpResolves
  \/ AskHttpRejects

\* calls on the AskSpoke instance
AskSpec == AskInit /\ [][AskNext]_vars

(* ------------------- the endpoint table of the design ------------------ *)

QueryOps == {"listRequestTypes", "listTeams", "listUsers", "listRequests", "listTags"}

BodyOps == {"postRequest", "postMessage", "updateRequest", "updateTeam", "addTags"}

EndpointOps == QueryOps \cup BodyOps \cup {"getRequest", "deleteRequest", "removeTags"}

\* the query a call passes on its own account, and its body
OwnQuery(c) == IF c.op \in QueryOps THEN c.params ELSE Undefined

OwnBody(c) == IF c.op \in BodyOps THEN c.params ELSE Undefined

TableVerb(op) ==
  CASE op \in QueryOps \cup {"getRequest"} -> "GET"
    [] op \in {"postRequest", "postMessage"} -> "POST"
    [] op \in {"updateRequest", "updateTeam", "addTags"} -> "PATCH"
    [] op \in {"deleteRequest", "removeTags"} -> "DELETE"

TablePath(c) ==
  CASE c.op = "listRequestTypes" -> "request_types"
    [] c.op = "listTeams" -> "teams"
    [] c.op = "listUsers" -> "users"
    [] c.op = "getRequest" -> "requests/" \o c.id
    [] c.op = "deleteRequest" -> "requests/" \o c.id
    [] c.op = "listRequests" -> "requests"
    [] c.op = "postRequest" -> "requests"
    [] c.op = "postMessage" -> "requests/" \o c.id \o "/messages"
    [] c.op = "updateRequest" -> "requests/" \o c.id
    [] c.op = "updateTeam" -> "teams/" \o c.id
    [] c.op = "listTags" -> "tags"
    [] c.op = "addTags" -> "requests/" \o c.id \o "/tags"
    [] c.op = "removeTags" -> "requests/" \o c.id \o "/tags/" \o c.tagId

\* the call has got as far as handing its request to got
Dispatched(c) == c.pc \in {"awaitHttp", "resolved"} \/ c.thrown \in HttpErrors

(* ------------------------------- claims ------------------------------- *)

\* C1: parameter isolation in a strictly sequential call sequence: a request
\* carries a query only if it is the query its own call passed, and a body
\* only if it is the body its own call passed; nothing of an earlier call's
\* parameters is in it.  (Checked under SeqSpec.)
C1_ParameterIsolation ==
  \A i \in 1..Len(calls) : \A k \in 1..Len(calls[i].reqs) :
    /\ calls[i].reqs[k].searchParams \in {Undefined, OwnQuery(calls[i])}
    /\ calls[i].reqs[k].json \in {Undefined, OwnBody(calls[i])}

\* C2: every endpoint operation, in whatever state earlier completed calls
\* left the instance, issues exactly one request with the verb, the path and
\* the parameter placement of the endpoint table.  (Checked under SeqSpec.)
C2_EndpointTable ==
  \A i \in 1..Len(calls) :
    (calls[i].op \in EndpointOps /\ Dispatched(calls[i])) =>
      /\ Len(calls[i].reqs) = 1
      /\ calls[i].reqs[1].verb = TableVerb(calls[i].op)
      /\ calls[i].reqs[1].url = prefixUrl \o TablePath(calls[i])
      /\ calls[i].reqs[1].searchParams = OwnQuery(calls[i])
      /\ calls[i].reqs[1].json = OwnBody(calls[i])

\* C3: credential caching: of two sequential token() calls the first of which
\* succeeded, at most one reads the secret store, and the second fulfils with
\* the value the first fulfilled with.  (Checked under SeqSpec.)
C3_CredentialCaching ==
  \A i \in 1..Len(calls) : \A j \in (i + 1)..Len(calls) :
    (calls[i].op = "token" /\ calls[i].pc = "resolved" /\ calls[j].op = "token") =>
      /\ Len(calls[i].reads) + Len(calls[j].reads) <= 1
      /\ calls[j].pc = "resolved" => calls[j].result = calls[i].result

\* C4: zero local recovery.  A call whose secret read was rejected is
\* rejected with that same error, having made its one read and no HTTP
\* request; a call whose HTTP request was rejected is rejected with that same
\* error, having made exactly one request.  Holding in every later state too,
\* this excludes a retry or a fallback.
C4_ZeroLocalRecovery ==
  \A i \in 1..Len(calls) :
    /\ calls[i].thrown \in StoreErrors =>
         /\ calls[i].pc = "rejected"
         /\ calls[i].result = calls[i].thrown
         /\ Len(calls[i].reads) = 1
         /\ calls[i].reqs = <<>>
    /\ calls[i].thrown \in HttpErrors =>
         /\ calls[i].pc = "rejected"
         /\ calls[i].result = calls[i].thrown
         /\ Len(calls[i].reqs) = 1

\* C4 witness: one call rejected by the secret store and one rejected by HTTP
C4_Witness ==
  \E i, j \in 1..Len(calls) :
    /\ calls[i].op \in EndpointOps /\ calls[i].thrown \in StoreErrors
    /\ calls[j].op \in EndpointOps /\ calls[j].thrown \in HttpErrors
    /\ calls[i].pc = "rejected" /\ calls[j].pc = "rejected"

\* C5: the token cache is written at most once over the life of the
\* instance, under every interleaving, and every write stores the same value.
C5_CacheWrittenOnce ==
  /\ Len(cacheWrites) <= 1
  /\ \A m, n \in 1..Len(cacheWrites) : cacheWrites[m] = cacheWrites[n]

\* the methods that assign this.searchParams and this.bodyParams on entry
SlotSetterOps ==
  {"listRequestTypes", "listTeams", "listUsers", "listRequests", "postRequest",
   "postMessage", "updateRequest", "updateTeam", "listTags", "addTags", "removeTags"}

\* the last call, in start order, whose method assigned the two slots
\* (0 when none has)
LastSetter ==
  LET S == {k \in 1..Len(calls) : calls[k].op \in SlotSetterOps}
  IN  IF S = {} THEN 0 ELSE CHOOSE k \in S : \A m \in S : m <= k

\* C6: shared-slot hazard.  When a call resumes in gotClient, the client it
\* builds carries the query and the body of the call that assigned the slots
\* last, whichever call that is: so a call that a later call overtook before
\* its gotClient resumed is dispatched with the later call's parameters.
C6_SharedSlotHazard ==
  [][\A i \in 1..Len(calls) :
       (calls[i].pc = "awaitToken" /\ calls'[i].pc = "awaitClient") =>
         IF LastSetter = 0
           THEN /\ calls'[i].client[1].searchParams = Undefined
                /\ calls'[i].client[1].json = Undefined
           ELSE /\ calls'[i].client[1].searchParams = OwnQuery(calls[LastSetter])
                /\ calls'[i].client[1].json = OwnBody(calls[LastSetter])]_vars

\* C6 witness: the token was cached when the first call started (it read
\* nothing), the second call started before the first reached dispatch, and
\* the first call's request went out with the second's parameters, not its own
C6_Witness ==
  \E i, j \in 1..Len(calls) :
    /\ i < j
    /\ calls[i].op \in QueryOps \cup BodyOps
    /\ calls[j].op \in QueryOps \cup BodyOps
    /\ calls[i].params # calls[j].params
    /\ calls[i].reads = <<>>
    /\ Len(calls[i].reqs) = 1
    /\ calls[i].reqs[1].searchParams = OwnQuery(calls[j])
    /\ calls[i].reqs[1].json = OwnBody(calls[j])
    /\ <<calls[i].reqs[1].searchParams, calls[i].reqs[1].json>>
         # <<OwnQuery(calls[i]), OwnBody(calls[i])>>

\* C7: a client constructed with a literal token never reads the secret
\* store (nor writes a token cache), and every request it issues carries the
\* constructor's token in the Api-Key header.  (Checked under AskSpec.)
C7_LiteralToken ==
  /\ secretReads = 0
  /\ cacheWrites = <<>>
  /\ \A i \in 1..Len(askCalls) : \A k \in 1..Len(askCalls[i].reqs) :
       askCalls[i].reqs[k].ApiKey = askSpokeToken

\* C7 witness: two calls of the literal-token client have completed
C7_Witness ==
  /\ Len(askCalls) = 2
  /\ askCalls[1].pc = "resolved" /\ askCalls[1].op = "getRequest"
  /\ askCalls[2].pc = "rejected"
  /\ askCalls[1].reqs[1].ApiKey \in LiteralTokens

\* the URL got requests for an AskSpoke call: options.url, or options.baseUrl
\* followed by the path argument
AskTarget(r) == IF r.url # Undefined THEN r.url ELSE r.baseUrl \o r.arg

\* C8: update team issues one PATCH to teams/{id} with the caller's params as
\* the body, in the literal-token client and in the secret-store client.
\* (Checked under AskSpec.)
C8_UpdateTeam ==
  /\ \A i \in 1..Len(askCalls) :
       askCalls[i].op = "updateTeam" =>
         /\ Len(askCalls[i].reqs) = 1
         /\ askCalls[i].reqs[1].verb = "PATCH"
         /\ AskTarget(askCalls[i].reqs[1]) = apiUrl \o "/teams/" \o askCalls[i].id
         /\ askCalls[i].reqs[1].body = askCalls[i].params
  /\ \A i \in 1..Len(calls) :
       (calls[i].op = "updateTeam" /\ Dispatched(calls[i])) =>
         /\ Len(calls[i].reqs) = 1
         /\ calls[i].reqs[1].verb = "PATCH"
         /\ calls[i].reqs[1].url = prefixUrl \o "teams/" \o calls[i].id
         /\ calls[i].reqs[1].json = calls[i].params

\* a call of token() (direct, or made by gotClient) is entered in this step
TokenEntered == Len(calls') = Len(calls) + 1

\* C9: cache hit.  A token() call entered while the cache holds a token reads
\* nothing, leaves the cache as it is and fulfils with the cached value: a
\* direct token() call returns exactly the value the cache held on entry.
C9_CacheHit ==
  [][/\ (TokenEntered /\ Truthy(cache)) =>
          /\ calls'[Len(calls')].pc = "awaitToken"
          /\ calls'[Len(calls')].apiKey = cache
          /\ calls'[Len(calls')].reads = <<>>
          /\ secretReads' = secretReads
          /\ cache' = cache
          /\ cacheWrites' = cacheWrites
     /\ \A i \in 1..Len(calls) :
          (calls[i].op = "token" /\ calls[i].reads = <<>> /\ calls[i].pc = "awaitToken"
             /\ calls'[i].pc # "awaitToken") =>
            /\ calls'[i].pc = "resolved"
            /\ calls'[i].result = calls[i].apiKey
            /\ cache' = cache]_vars

\* C9 witness: a direct token() call found the token cached and returned it
C9_Witness ==
  \E i \in 1..Len(calls) :
    /\ calls[i].op = "token"
    /\ calls[i].pc = "resolved"
    /\ calls[i].reads = <<>>
    /\ Truthy(calls[i].result)
    /\ calls[i].result = cache
    /\ secretReads = 0

\* C10: cache miss.  A token() call entered while the cache is empty issues a
\* single read keyed by the constructor's secretPrefix; when the read
\* succeeds the call fulfils with the secret's string value and the cache
\* holds exactly that value; token() leaves secretPrefix and the two
\* parameter slots as they are.
C10_CacheMiss ==
  [][/\ (TokenEntered /\ ~Truthy(cache)) =>
          /\ calls'[Len(calls')].pc = "awaitRead"
          /\ calls'[Len(calls')].reads = <<[SecretId |-> secretPrefix']>>
          /\ secretReads' = secretReads + 1
          /\ secretPrefix' = secretPrefix
          /\ calls'[Len(calls')].op = "token" =>
               /\ searchParams' = searchParams
               /\ bodyParams' = bodyParams
     /\ \A i \in 1..Len(calls) :
          (calls[i].pc = "awaitRead" /\ calls'[i].received # NotYet) =>
            /\ calls'[i].pc = "awaitToken"
            /\ calls'[i].apiKey = calls'[i].received
            /\ cache' = calls'[i].received
            /\ calls'[i].reads = calls[i].reads
            /\ secretReads' = secretReads
            /\ <<secretPrefix', searchParams', bodyParams'>>
                 = <<secretPrefix, searchParams, bodyParams>>
     /\ \A i \in 1..Len(calls) :
          (calls[i].op = "token" /\ calls[i].pc = "awaitToken" /\ calls'[i].pc # "awaitToken") =>
            /\ calls'[i].pc = "resolved"
            /\ calls'[i].result = calls[i].apiKey
            /\ <<secretPrefix', cache', searchParams', bodyParams'>>
                 = <<secretPrefix, cache, searchParams, bodyParams>>]_vars

\* C10 witness: a direct token() call on an empty cache read the secret once
\* and returned its value, which the cache now holds
C10_Witness ==
  \E i \in 1..Len(calls) :
    /\ calls[i].op = "token"
    /\ calls[i].pc = "resolved"
    /\ calls[i].reads = <<[SecretId |-> secretPrefix]>>
    /\ calls[i].received \in {"tok-2", "tok-3"}
    /\ calls[i].result = calls[i].received
    /\ cache = calls[i].result
    /\ secretReads = 1

\* a step in which call i hands a request to got
Issues(i) == Len(calls'[i].reqs) > Len(calls[i].reqs)

\* C11: ordering within one call of the secret-store client.  A call reads
\* the secret only on entry and at most once; when it issues its HTTP request
\* its token has been resolved: a call that read has had the read fulfilled
\* and sends the value the store returned in the Api-Key header, a call that
\* did not read sends the token the cache held when it entered.  The request
\* is the call's only one.  The first call on a fresh instance enters with one
\* read and no request, so it is one read followed by one request.
C11_CallOrdering ==
  [][/\ \A i \in 1..Len(calls) :
          /\ calls'[i].reads = calls[i].reads
          /\ calls[i].reads = <<>> => calls'[i].apiKey = calls[i].apiKey
          /\ Issues(i) =>
                /\ calls[i].pc = "awaitClient"
                /\ calls[i].reqs = <<>> /\ Len(calls'[i].reqs) = 1
                /\ Len(calls[i].reads) <= 1
                /\ calls[i].reads # <<>> =>
                     /\ calls[i].received \in SecretStrings
                     /\ calls'[i].reqs[1].ApiKey = calls[i].received
                /\ calls[i].reads = <<>> =>
                     calls'[i].reqs[1].ApiKey = calls[i].apiKey
     /\ TokenEntered =>
          /\ calls'[Len(calls')].reqs = <<>>
          /\ calls'[Len(calls')].reads = <<>> =>
               /\ Truthy(cache)
               /\ calls'[Len(calls')].apiKey = cache
          /\ (calls = <<>> /\ cache = Undefined) =>
               Len(calls'[1].reads) = 1]_vars

\* C11 witness: the first call on a fresh instance, an endpoint call, read
\* the secret once, then sent one request carrying the value it received
C11_Witness ==
  /\ Len(calls) >= 1
  /\ calls[1].op = "listTeams"
  /\ calls[1].pc = "resolved"
  /\ Len(calls[1].reads) = 1
  /\ calls[1].received = "tok-2"
  /\ Len(calls[1].reqs) = 1
  /\ calls[1].reqs[1].ApiKey = "tok-2"
  /\ cacheWrites # <<>> /\ cacheWrites[1] = "tok-2"

\* C12: the two parameter slots are never both set, in any state and under
\* any interleaving of endpoint operations, so no client is built with both a
\* query and a body and no request handed to got carries both.
C12_SlotsExclusive ==
  /\ ~(searchParams # Undefined /\ bodyParams # Undefined)
  /\ \A i \in 1..Len(calls) :
       /\ \A k \in 1..Len(calls[i].client) :
            ~(calls[i].client[k].searchParams # Undefined
                /\ calls[i].client[k].json # Undefined)
       /\ \A k \in 1..Len(calls[i].reqs) :
            ~(calls[i].reqs[k].searchParams # Undefined
                /\ calls[i].reqs[k].json # Undefined)

\* C12 witness: a body operation and then a query operation ran on the
\* instance; the first was dispatched with a body and no query, the second
\* with a query and no body, and the body slot is clear
C12_Witness ==
  /\ Len(calls) = 2
  /\ calls[1].op = "postRequest" /\ calls[2].op = "listUsers"
  /\ Len(calls[1].reqs) = 1 /\ Len(calls[2].reqs) = 1
  /\ calls[1].reqs[1].json = "p1" /\ calls[1].reqs[1].searchParams = Undefined
  /\ calls[2].reqs[1].searchParams = "p2" /\ calls[2].reqs[1].json = Undefined
  /\ searchParams = "p2" /\ bodyParams = Undefined

\* what the slots hold once the call that assigned them last has done so:
\* its query and its body, or undefined in both on an instance where no
\* method has assigned them
SlotsLeft ==
  IF LastSetter = 0
    THEN <<Undefined, Undefined>>
    ELSE <<OwnQuery(calls[LastSetter]), OwnBody(calls[LastSetter])>>

\* C13 as stated: getRequest and deleteRequest write neither slot and no
\* completion clears one, so in every state the slots hold what the most
\* recent slot-setting operation left; and both slots are undefined only when
\* no slot-setting operation has run or the most recent one is removeTags.
C13_SlotsFrame ==
  /\ <<searchParams, bodyParams>> = SlotsLeft
  /\ (searchParams = Undefined /\ bodyParams = Undefined) =>
       \/ LastSetter = 0
       \/ calls[LastSetter].op = "removeTags"

\* C13, amended: getRequest and deleteRequest write neither slot and no
\* completion clears one, so in every state (on entry to a call, at its
\* dispatch, after it settles) the slots hold what the most recent
\* slot-setting operation left; both slots are undefined only when no
\* slot-setting operation has run, or the most recent one is removeTags or
\* was called with undefined params.
C13_SlotsFrameAmended ==
  /\ <<searchParams, bodyParams>> = SlotsLeft
  /\ (searchParams = Undefined /\ bodyParams = Undefined) =>
       \/ LastSetter = 0
       \/ calls[LastSetter].op = "removeTags"
       \/ calls[LastSetter].params = Undefined

\* C13 witness: a body operation settled and a getRequest after it was
\* dispatched and settled; the body slot still holds the first call's params,
\* which went out with the getRequest
C13_Witness ==
  /\ Len(calls) = 2
  /\ calls[1].op = "updateRequest" /\ calls[1].pc = "resolved"
  /\ calls[2].op = "getRequest" /\ calls[2].pc = "resolved"
  /\ searchParams = Undefined /\ bodyParams = calls[1].params
  /\ bodyParams \in Params
  /\ calls[2].reqs[1].json = calls[1].params

\* the calls whose secret read has been fulfilled
ReadFulfilled == {k \in 1..Len(calls) : calls[k].received # NotYet}

\* C14: a failed secret read is not cached.  With calls made one after the
\* other: the cache is written once per fulfilled read and never by a failure;
\* a call whose read was rejected has made exactly one read and no request,
\* and leaves the cache empty and the slots as it assigned them; the call
\* after it makes a fresh read with the constructor's SecretId and, when that
\* read is fulfilled, the cache holds the value received and the call goes on
\* to its dispatch (a direct token() call returns the value).
\* (Checked under SeqSpec.)
C14_FailedReadNotCached ==
  /\ Len(cacheWrites) = Cardinality(ReadFulfilled)
  /\ \A i \in 1..Len(calls) :
       calls[i].thrown \in StoreErrors =>
         /\ calls[i].pc = "rejected"
         /\ Len(calls[i].reads) = 1
         /\ calls[i].reqs = <<>>
         /\ i \notin ReadFulfilled
         /\ i = Len(calls) => ~Truthy(cache)
         /\ i = LastSetter =>
              <<searchParams, bodyParams>> = <<OwnQuery(calls[i]), OwnBody(calls[i])>>
         /\ i < Len(calls) =>
              LET n == calls[i + 1]
              IN  /\ n.reads = <<[SecretId |-> secretPrefix]>>
                  /\ n.received # NotYet =>
                       /\ (i + 1 = Len(calls) \/ Truthy(n.received)) =>
                            cache = n.received
                       /\ n.apiKey = n.received
                       /\ n.pc \in {"awaitToken", "awaitClient", "awaitHttp",
                                    "resolved", "rejected"}
                       /\ n.pc = "rejected" => n.thrown \in HttpErrors
                       /\ (Settled(n) /\ n.op # "token") =>
                            /\ Len(n.reqs) = 1
                            /\ n.reqs[1].ApiKey = n.received
                       /\ (Settled(n) /\ n.op = "token") =>
                            n.result = n.received

\* C14 witness: the first call's read failed after the call had assigned the
\* query slot; the next call, a getRequest, read the secret afresh, cached the
\* value it received and was dispatched with it, and with the query the
\* failed call had left in the slot
C14_Witness ==
  /\ Len(calls) = 2
  /\ calls[1].op = "listRequestTypes" /\ calls[1].params = "p1"
  /\ calls[1].thrown \in StoreErrors /\ calls[1].pc = "rejected"
  /\ calls[2].op = "getRequest" /\ calls[2].pc = "resolved"
  /\ Len(calls[2].reads) = 1 /\ calls[2].received = "tok-3"
  /\ cache = "tok-3" /\ cacheWrites = <<"tok-3">>
  /\ secretReads = 2
  /\ calls[2].reqs[1].ApiKey = "tok-3"
  /\ searchParams = "p1" /\ calls[2].reqs[1].searchParams = "p1"

\* the secret values JavaScript takes for false: an empty SecretString, or
\* none
EmptySecrets == {"", Undefined}

\* C15: the cache-hit test is a truthiness test.  With calls made one after
\* the other: when a call's read was fulfilled with an empty or absent
\* SecretString, that value is what the cache is given, and the next call
\* reads the secret again; when it was fulfilled with a non-empty value, no
\* later call reads.  So at most one read per instance holds only for
\* non-empty secret values.  (Checked under SeqSpec.)
C15_TruthinessTest ==
  \A i \in 1..Len(calls) :
    calls[i].received # NotYet =>
      /\ calls[i].received \in EmptySecrets =>
           /\ i = Len(calls) => cache = calls[i].received
           /\ i < Len(calls) =>
                calls[i + 1].reads = <<[SecretId |-> secretPrefix]>>
      /\ calls[i].received \notin EmptySecrets =>
           /\ cache = calls[i].received
           /\ \A k \in (i + 1)..Len(calls) : calls[k].reads = <<>>

\* C15 witness: the first call's read returned an empty SecretString, which
\* was stored; the second call read the secret again
C15_Witness ==
  /\ Len(calls) = 2
  /\ calls[1].op = "token" /\ calls[1].pc = "resolved"
  /\ calls[1].received = "" /\ calls[1].result = ""
  /\ Len(calls[2].reads) = 1
  /\ calls[2].received = Undefined
  /\ cacheWrites = <<"", Undefined>>
  /\ secretReads = 2

====
